---- MODULE Spec2Model ----
(***************************************************************************)
(* Model of src/7-crawl_directory_pages.py: the DirectoryCrawler class.    *)
(*                                                                         *)
(* A Python str is a sequence of one-character strings, so that the        *)
(* string operations of the source (rstrip, split, startswith, urlparse,   *)
(* urljoin) are computed and not assumed.  The alphabet is lower-case      *)
(* ASCII letters, digits and the URL punctuation : / # ? . _ -             *)
(***************************************************************************)
EXTENDS Integers, Sequences, FiniteSets, TLC

VARIABLES
    directory_url,   \* self.directory_url
    max_depth,       \* self.max_depth
    max_pages,       \* self.max_pages
    output_dir,      \* self.output_dir
    base_domain,     \* self.base_domain
    base_scheme,     \* self.base_scheme
    directory_path,  \* self.directory_path
    visited_urls,    \* self.visited_urls
    pending_urls,    \* self.pending_urls
    crawled_pages,   \* self.crawled_pages
    pc,              \* position of crawl_directory
    cur,             \* the (url, depth) popped, while crawler.arun is awaited
    exc,             \* the exception propagating out of the try block, or None
    started,         \* crawler.start() has returned
    closeCalls,      \* number of crawler.close() calls
    fetched,         \* the (url, depth) arguments of the crawler.arun calls, in order
    files,           \* page files written in output_dir
    report,          \* the documents written to _CRAWL_REPORT.md, in order
    new_links,       \* the local new_links of crawl_directory: the links last extracted
    hops,            \* per URL, the fewest link hops from the directory seen so far
    calls            \* the <<argument, result>> pairs of the normalize_url calls traced

vars == <<directory_url, max_depth, max_pages, output_dir, base_domain, base_scheme,
          directory_path, visited_urls, pending_urls, crawled_pages, pc, cur, exc,
          started, closeCalls, fetched, files, report, new_links, hops, calls>>

config == <<directory_url, max_depth, max_pages, output_dir, base_domain, base_scheme,
            directory_path>>

\* None, where the other values are strings
None == "None"
\* None, where the other values are file paths (no file path is empty)
NoPath == <<>>
\* cur when no item is being fetched
NoItem == <<>>

-----------------------------------------------------------------------------
(* Bounds of the model *)

\* max_depth ranges over -1 .. MaxDepthArg
MaxDepthArg == 2
\* max_pages ranges over 0 .. MaxPagesArg
MaxPagesArg == 3
\* a fetched page holds at most MaxLinks anchors
MaxLinks == 4
\* at most MaxSaveFailures page files cannot be written in a run
MaxSaveFailures == 1
\* normalize_url is traced on every string of at most MaxInputLen characters
MaxInputLen == 3

-----------------------------------------------------------------------------
(* Python str operations *)

Take(s, n) == SubSeq(s, 1, n)
Drop(s, n) == SubSeq(s, n + 1, Len(s))

Min(S) == CHOOSE i \in S : \A j \in S : i <= j

\* str.startswith(p)
StartsWith(s, p) == Len(p) <= Len(s) /\ Take(s, Len(p)) = p

\* str.endswith(p)
EndsWith(s, p) == Len(p) <= Len(s) /\ Drop(s, Len(s) - Len(p)) = p

\* index (1-based) of the first character of s at or after from that is in C, 0 if none
IndexOf(s, C, from) ==
    LET I == {i \in from..Len(s) : s[i] \in C}
    IN  IF I = {} THEN 0 ELSE Min(I)

\* str.rstrip(c)
RStrip(s, c) ==
    Take(s, Len(s) - Min({n \in 0..Len(s) : n = Len(s) \/ s[Len(s) - n] # c}))

\* str.lstrip(c)
LStrip(s, c) ==
    Drop(s, Min({n \in 0..Len(s) : n = Len(s) \/ s[n + 1] # c}))

\* str.strip(c)
Strip(s, c) == RStrip(LStrip(s, c), c)

\* str.replace(a, b) for single characters
ReplaceChar(s, a, b) == [i \in 1..Len(s) |-> IF s[i] = a THEN b ELSE s[i]]

\* str.split(c): the segments between the occurrences of c
RECURSIVE Split(_, _)
Split(s, c) ==
    LET i == IndexOf(s, {c}, 1)
    IN  IF i = 0 THEN <<s>> ELSE <<Take(s, i - 1)>> \o Split(Drop(s, i), c)

\* c.join(segs)
RECURSIVE Join(_, _)
Join(segs, c) ==
    IF segs = <<>> THEN <<>>
    ELSE IF Len(segs) = 1 THEN segs[1]
    ELSE segs[1] \o <<c>> \o Join(Tail(segs), c)

Letters == {"a", "b", "c", "d", "e", "f", "g", "h", "i", "j", "k", "l", "m",
            "n", "o", "p", "q", "r", "s", "t", "u", "v", "w", "x", "y", "z"}
Digits == {"0", "1", "2", "3", "4", "5", "6", "7", "8", "9"}

SchemeChars == Letters \cup Digits \cup {"+", "-", "."}

-----------------------------------------------------------------------------
(* urllib.parse, for the URLs of the alphabet (no ';' parameters, no        *)
(* upper-case letters, no whitespace or control characters)                *)

HTTP == <<"h", "t", "t", "p">>

\* urllib.parse.uses_relative and uses_netloc, restricted to the schemes of the model
uses_relative == {<<>>, HTTP}
uses_netloc == {<<>>, HTTP}

\* urllib.parse.urlparse(url, scheme): the default scheme is used when url has none
urlparse2(url, default) ==
    LET i        == IndexOf(url, {":"}, 1)
        hasScheme == /\ i > 1
                     /\ url[1] \in Letters
                     /\ \A j \in 1..(i - 1) : url[j] \in SchemeChars
        scheme   == IF hasScheme THEN Take(url, i - 1) ELSE default
        rest1    == IF hasScheme THEN Drop(url, i) ELSE url
        hasNet   == StartsWith(rest1, <<"/", "/">>)
        delim    == IndexOf(rest1, {"/", "?", "#"}, 3)
        netloc   == IF ~hasNet THEN <<>>
                    ELSE IF delim = 0 THEN Drop(rest1, 2)
                    ELSE SubSeq(rest1, 3, delim - 1)
        rest2    == IF ~hasNet THEN rest1
                    ELSE IF delim = 0 THEN <<>>
                    ELSE Drop(rest1, delim - 1)
        h        == IndexOf(rest2, {"#"}, 1)
        fragment == IF h = 0 THEN <<>> ELSE Drop(rest2, h)
        rest3    == IF h = 0 THEN rest2 ELSE Take(rest2, h - 1)
        q        == IndexOf(rest3, {"?"}, 1)
        query    == IF q = 0 THEN <<>> ELSE Drop(rest3, q)
        path     == IF q = 0 THEN rest3 ELSE Take(rest3, q - 1)
    IN  [scheme |-> scheme, netloc |-> netloc, path |-> path,
         query |-> query, fragment |-> fragment]

\* urllib.parse.urlparse(url)
urlparse(url) == urlparse2(url, <<>>)

\* urllib.parse.urlunparse
urlunparse(p) ==
    LET u1 == IF p.netloc # <<>>
                 \/ (p.scheme # <<>> /\ p.scheme \in uses_netloc
                     /\ ~StartsWith(p.path, <<"/", "/">>))
              THEN <<"/", "/">> \o p.netloc
                   \o (IF p.path # <<>> /\ p.path[1] # "/" THEN <<"/">> ELSE <<>>)
                   \o p.path
              ELSE p.path
        u2 == IF p.scheme # <<>> THEN p.scheme \o <<":">> \o u1 ELSE u1
        u3 == IF p.query # <<>> THEN u2 \o <<"?">> \o p.query ELSE u2
    IN  IF p.fragment # <<>> THEN u3 \o <<"#">> \o p.fragment ELSE u3

\* the dot-segment loop of urljoin
RECURSIVE ResolveSegments(_, _)
ResolveSegments(segments, resolved) ==
    IF segments = <<>> THEN resolved
    ELSE LET seg == Head(segments)
         IN  IF seg = <<".", ".">>
             THEN ResolveSegments(Tail(segments),
                     IF resolved # <<>> THEN Take(resolved, Len(resolved) - 1)
                     ELSE resolved)
             ELSE IF seg = <<".">> THEN ResolveSegments(Tail(segments), resolved)
             ELSE ResolveSegments(Tail(segments), Append(resolved, seg))

\* filter(None, segs)
FilterEmpty(segs) == SelectSeq(segs, LAMBDA x : x # <<>>)

\* urljoin: base_parts, the segments of the base path without its last, non-directory one
BaseParts(parts) ==
    IF parts[Len(parts)] # <<>> THEN Take(parts, Len(parts) - 1) ELSE parts

\* urljoin: segments[1:-1] = filter(None, segments[1:-1])
FilterMiddle(segs) ==
    IF Len(segs) <= 2 THEN segs
    ELSE <<segs[1]>> \o FilterEmpty(SubSeq(segs, 2, Len(segs) - 1)) \o <<segs[Len(segs)]>>

\* urljoin: the segments to resolve
JoinSegments(bpath, path) ==
    IF path[1] = "/" THEN Split(path, "/")
    ELSE FilterMiddle(BaseParts(Split(bpath, "/")) \o Split(path, "/"))

\* urljoin: the resolved path, '/'.join(resolved_path) or '/'
ResolvedPath(segments) ==
    IF segments[Len(segments)] \in {<<".">>, <<".", ".">>}
    THEN Join(Append(ResolveSegments(segments, <<>>), <<>>), "/")
    ELSE Join(ResolveSegments(segments, <<>>), "/")

OrSlash(path) == IF path = <<>> THEN <<"/">> ELSE path

\* urljoin, once base and url are parsed and the netloc is settled
JoinPath(b, u, netloc) ==
    IF u.path = <<>>
    THEN urlunparse([scheme |-> u.scheme, netloc |-> netloc, path |-> b.path,
                     query |-> IF u.query = <<>> THEN b.query ELSE u.query,
                     fragment |-> u.fragment])
    ELSE urlunparse([scheme |-> u.scheme, netloc |-> netloc,
                     path |-> OrSlash(ResolvedPath(JoinSegments(b.path, u.path))),
                     query |-> u.query, fragment |-> u.fragment])

\* urljoin, once base and url are parsed
JoinParsed(b, u, url) ==
    IF u.scheme # b.scheme \/ u.scheme \notin uses_relative THEN url
    ELSE IF u.scheme \in uses_netloc /\ u.netloc # <<>> THEN urlunparse(u)
    ELSE JoinPath(b, u, IF u.scheme \in uses_netloc THEN b.netloc ELSE u.netloc)

\* urljoin, once base is parsed
JoinBase(b, url) == JoinParsed(b, urlparse2(url, b.scheme), url)

\* urllib.parse.urljoin(base, url)
urljoin(base, url) ==
    IF base = <<>> THEN url
    ELSE IF url = <<>> THEN base
    ELSE JoinBase(urlparse(base), url)

-----------------------------------------------------------------------------
(* DirectoryCrawler: the pure methods *)

\* "crawled_"
CRAWLED_ == <<"c", "r", "a", "w", "l", "e", "d", "_">>
\* "root"
ROOT == <<"r", "o", "o", "t">>
\* "index"
INDEX == <<"i", "n", "d", "e", "x">>
\* ".md"
DOT_MD == <<".", "m", "d">>
\* "javascript:", "mailto:", "tel:"
JAVASCRIPT == <<"j", "a", "v", "a", "s", "c", "r", "i", "p", "t", ":">>
MAILTO == <<"m", "a", "i", "l", "t", "o", ":">>
TEL == <<"t", "e", "l", ":">>

\* longest file name stem get_safe_filename keeps
MaxFilenameLen == 100

\* __init__: self.directory_url
InitDirectoryUrl(url) == RStrip(url, "/") \o <<"/">>

\* __init__: the default self.output_dir
InitOutputDir(url) ==
    LET parsed   == urlparse(url)
        stripped == ReplaceChar(Strip(parsed.path, "/"), "/", "_")
        dir_name == IF stripped = <<>> THEN ROOT ELSE stripped
    IN  CRAWLED_ \o parsed.netloc \o <<"_">> \o dir_name

\* is_in_target_directory, on a crawler with the given base_domain and directory_path
InTargetDirectory(url, domain, path) ==
    LET parsed == urlparse(url)
    IN  IF parsed.netloc # domain THEN FALSE
        ELSE StartsWith(parsed.path, path)

\* self.is_in_target_directory(url)
is_in_target_directory(url) == InTargetDirectory(url, base_domain, directory_path)

\* mutant of NormalizeUrl: a root-relative URL is made protocol-relative
NormalizeUrl_ProtocolRelative(raw, scheme, domain) ==
    LET url == Split(raw, "#")[1]
    IN  IF StartsWith(url, <<"/", "/">>) THEN scheme \o <<":">> \o url
        ELSE IF StartsWith(url, <<"/">>) THEN <<"/", "/">> \o domain \o url
        ELSE url

\* mutant of NormalizeUrl: the fragment is kept
NormalizeUrl_KeepsFragment(raw, scheme, domain) ==
    IF StartsWith(raw, <<"/", "/">>) THEN scheme \o <<":">> \o raw
    ELSE IF StartsWith(raw, <<"/">>) THEN scheme \o <<":", "/", "/">> \o domain \o raw
    ELSE raw

\* normalize_url, on a crawler with the given base_scheme and base_domain
NormalizeUrl(raw, scheme, domain) ==
    LET url == Split(raw, "#")[1]
    IN  IF StartsWith(url, <<"/", "/">>) THEN scheme \o <<":">> \o url
        ELSE IF StartsWith(url, <<"/">>) THEN scheme \o <<":", "/", "/">> \o domain \o url
        ELSE url

\* self.normalize_url(url)
normalize_url(url) == NormalizeUrl(url, base_scheme, base_domain)

\* get_safe_filename: parsed.path.strip('/') or 'index'
OrIndex(path) == IF path = <<>> THEN INDEX ELSE path

\* get_safe_filename: every character that is not alphanumeric, '_', '-' or '.' becomes '_'
SafeChars(f) ==
    [i \in 1..Len(f) |->
        IF f[i] \in Letters \cup Digits \cup {"_", "-", "."} THEN f[i] ELSE "_"]

\* get_safe_filename: filename[:100]
Truncate(f) == IF Len(f) > MaxFilenameLen THEN Take(f, MaxFilenameLen) ELSE f

\* get_safe_filename: the '.md' extension is appended when absent
EnsureMd(f) == IF ~EndsWith(f, DOT_MD) THEN f \o DOT_MD ELSE f

\* get_safe_filename
get_safe_filename(url) ==
    EnsureMd(Truncate(SafeChars(
        ReplaceChar(OrIndex(Strip(urlparse(url).path, "/")), "/", "_"))))

\* os.path.join(self.output_dir, filename)
FilePath(filename) == output_dir \o <<"/">> \o filename

\* the href filter of extract_links_from_html
Navigable(href) ==
    /\ href # <<>>
    /\ ~StartsWith(href, JAVASCRIPT)
    /\ ~StartsWith(href, MAILTO)
    /\ ~StartsWith(href, TEL)

\* extract_links_from_html: normalized_url for one anchor
LinkOf(href, base_url) == normalize_url(urljoin(base_url, Strip(href, " ")))

\* extract_links_from_html, the body of the for loop: what each anchor appends to links
AnchorLinks(hrefs, base_url) ==
    [href \in hrefs |->
        IF Navigable(Strip(href, " ")) /\ is_in_target_directory(LinkOf(href, base_url))
        THEN {LinkOf(href, base_url)} ELSE {}]

\* set(links), for the anchors hrefs and what each of them appends
LinkSet(hrefs, appended) == UNION {appended[href] : href \in hrefs}

\* extract_links_from_html: the set of links of a page whose anchors carry hrefs;
\* the caller iterates list(set(links)), whose order is arbitrary
extract_links_from_html(hrefs, base_url) == LinkSet(hrefs, AnchorLinks(hrefs, base_url))

-----------------------------------------------------------------------------
(* Inputs: constructor arguments and what the collaborators return *)

\* "http://h/g"
URL_G == HTTP \o <<":", "/", "/", "h", "/", "g">>

\* the directory_url arguments: with, without and with a doubled trailing slash
DirUrls == {URL_G \o <<"/">>, URL_G, URL_G \o <<"/", "/">>}

\* the href attributes a fetched page may carry
Hrefs ==
    { <<"a">>,                                  \* relative
      <<"/", "g", "/", "b", "#", "f">>,         \* root-relative, with a fragment
      <<"/", "o", "/", "c">>,                   \* another directory
      <<"/", "g", "x", "/", "p">>,              \* a sibling of /g
      HTTP \o <<":", "/", "/", "k", "/", "g", "/">>,   \* absolute, another host
      <<"/", "/", "k", "/", "g", "/", "a">>,    \* protocol-relative, another host
      JAVASCRIPT \o <<"v">> }

\* result.html: None (or empty), or markup whose anchors carry at most MaxLinks hrefs
NoHtml == [markup |-> FALSE, hrefs |-> {}]
HtmlChoices ==
    {NoHtml} \cup {[markup |-> TRUE, hrefs |-> hs] :
                      hs \in {x \in SUBSET Hrefs : Cardinality(x) <= MaxLinks}}

\* len(result.markdown.raw_markdown) of the fetched pages
MarkdownLengths == {7}

\* result.error_message
ErrorMessages == {"timeout"}

\* exceptions a collaborator call may raise at an await
Raised == {"Exception", "CancelledError"}

\* the orders in which list(set(links)) may enumerate a set
RECURSIVE Orderings(_)
Orderings(S) ==
    IF S = {} THEN {<<>>}
    ELSE UNION {{<<x>> \o o : o \in Orderings(S \ {x})} : x \in S}

-----------------------------------------------------------------------------
(* crawl_directory *)

\* [u for u, _ in self.pending_urls]
PendingUrls(pending) == {pending[i][1] : i \in 1..Len(pending)}

\* sum(1 for p in self.crawled_pages if p['success'])
SuccessCount(pages) == Cardinality({i \in 1..Len(pages) : pages[i].success})

\* mutant of LoopCond: the budget test is off by one
LoopCond_OffByOne == pending_urls # <<>> /\ Len(crawled_pages) <= max_pages

\* mutant of LoopCond: only successful fetches count toward the budget
LoopCond_SuccessOnly == pending_urls # <<>> /\ SuccessCount(crawled_pages) < max_pages

\* the while condition
LoopCond == pending_urls # <<>> /\ Len(crawled_pages) < max_pages

\* if url in self.visited_urls: continue
AlreadyVisited(url) == url \in visited_urls

\* mutant of DepthExceeded: the depth guard lets one more level through
DepthExceeded_Slack(depth) == depth > max_depth + 1

\* if depth > self.max_depth: continue
DepthExceeded(depth) == depth > max_depth

\* mutant of MarkVisited: the URL is not recorded as visited
MarkVisited_Forgotten(visited, url) == visited

\* self.visited_urls.add(url)
MarkVisited(visited, url) == visited \cup {url}

\* mutant of SuccessRecord: a page whose file was not written is recorded as not
\* successful
SuccessRecord_UnsavedIsFailure(url, depth, filepath, mdlen) ==
    [url |-> url, depth |-> depth, filepath |-> filepath,
     markdown_length |-> mdlen, success |-> filepath # NoPath]

\* the page_info of a successful fetch
SuccessRecord(url, depth, filepath, mdlen) ==
    [url |-> url, depth |-> depth, filepath |-> filepath,
     markdown_length |-> mdlen, success |-> TRUE]

\* mutant of FailureRecord: the error message is not recorded
FailureRecord_NoMessage(url, depth, msg) ==
    [url |-> url, depth |-> depth, filepath |-> NoPath, success |-> FALSE, error |-> None]

\* the record of a failed fetch
FailureRecord(url, depth, msg) ==
    [url |-> url, depth |-> depth, filepath |-> NoPath, success |-> FALSE, error |-> msg]

\* mutant of EnqueueLinks: a link is appended at the depth of the page it was found on
RECURSIVE EnqueueLinks_SameDepth(_, _, _)
EnqueueLinks_SameDepth(pending, links, depth) ==
    IF links = <<>> THEN pending
    ELSE LET link == Head(links)
         IN  EnqueueLinks_SameDepth(
                 IF link \notin visited_urls /\ link \notin PendingUrls(pending)
                 THEN Append(pending, <<link, depth>>) ELSE pending,
                 Tail(links), depth)

\* mutant of EnqueueLinks: a link is inserted at the head of pending_urls
RECURSIVE EnqueueLinks_AtHead(_, _, _)
EnqueueLinks_AtHead(pending, links, depth) ==
    IF links = <<>> THEN pending
    ELSE LET link == Head(links)
         IN  EnqueueLinks_AtHead(
                 IF link \notin visited_urls /\ link \notin PendingUrls(pending)
                 THEN <<<<link, depth + 1>>>> \o pending ELSE pending,
                 Tail(links), depth)

\* mutant of EnqueueLinks: a link is appended although it is pending
RECURSIVE EnqueueLinks_NoPendingCheck(_, _, _)
EnqueueLinks_NoPendingCheck(pending, links, depth) ==
    IF links = <<>> THEN pending
    ELSE LET link == Head(links)
         IN  EnqueueLinks_NoPendingCheck(
                 IF link \notin visited_urls
                 THEN Append(pending, <<link, depth + 1>>) ELSE pending,
                 Tail(links), depth)

\* the for loop over new_links
RECURSIVE EnqueueLinks(_, _, _)
EnqueueLinks(pending, links, depth) ==
    IF links = <<>> THEN pending
    ELSE LET link == Head(links)
         IN  EnqueueLinks(
                 IF link \notin visited_urls /\ link \notin PendingUrls(pending)
                 THEN Append(pending, <<link, depth + 1>>) ELSE pending,
                 Tail(links), depth)

\* the hop counts after the links of the page at url are known: a link is one hop
\* further than the page, unless fewer hops to it were seen before
Relax(h, links, url) ==
    [l \in DOMAIN h \cup links |->
        IF l \notin links THEN h[l]
        ELSE IF l \in DOMAIN h THEN Min({h[l], h[url] + 1})
        ELSE h[url] + 1]

\* the URLs whose fetch failed
FailedUrls(pages) == {pages[i].url : i \in {j \in 1..Len(pages) : ~pages[j].success}}

\* the lines generate_report writes
ReportOf(pages) ==
    [directory |-> directory_url,
     total     |-> Len(pages),
     success   |-> SuccessCount(pages),
     max_depth |-> max_depth,
     lines     |-> [i \in 1..Len(pages) |->
                      [ok |-> pages[i].success, depth |-> pages[i].depth,
                       url |-> pages[i].url,
                       file |-> IF pages[i].success /\ pages[i].filepath # NoPath
                                THEN <<pages[i].filepath, pages[i].markdown_length>>
                                ELSE <<>>]]]

\* __init__: the crawler that DirectoryCrawler(url, d, p) constructs
Constructed(url, d, p) ==
    /\ directory_url = InitDirectoryUrl(url)
    /\ max_depth = d
    /\ max_pages = p
    /\ output_dir = InitOutputDir(url)
    /\ visited_urls = {}
    /\ pending_urls = <<>>
    /\ crawled_pages = <<>>
    /\ base_domain = urlparse(url).netloc
    /\ base_scheme = urlparse(url).scheme
    /\ directory_path = urlparse(url).path
    /\ pc = "start"
    /\ cur = NoItem
    /\ exc = None
    /\ started = FALSE
    /\ closeCalls = 0
    /\ fetched = <<>>
    /\ files = {}
    /\ report = <<>>
    /\ new_links = {}
    /\ hops = <<>>
    /\ calls = <<>>

\* __init__
Init ==
    \E url \in DirUrls, d \in -1..MaxDepthArg, p \in 0..MaxPagesArg :
        Constructed(url, d, p)

\* await crawler.start() returns; the directory is appended to pending_urls
StartOk ==
    /\ pc = "start"
    /\ started' = TRUE
    /\ pending_urls' = Append(pending_urls, <<directory_url, 0>>)
    /\ hops' = (directory_url :> 0)
    /\ pc' = "loop"
    /\ UNCHANGED <<config, visited_urls, crawled_pages, cur, exc, closeCalls, fetched,
                   files, report, new_links, calls>>

\* await crawler.start() raises, outside the try block
StartFails ==
    /\ pc = "start"
    /\ \E e \in Raised : exc' = e
    /\ pc' = "raised"
    /\ UNCHANGED <<config, visited_urls, pending_urls, crawled_pages, cur, started,
                   closeCalls, fetched, files, report,
                   new_links, hops, calls>>

\* mutant of ExitLoop: generate_report is skipped when nothing was crawled
ExitLoop_SkipsEmptyReport ==
    /\ pc = "loop"
    /\ ~LoopCond
    /\ pc' = IF crawled_pages = <<>> THEN "close" ELSE "report"
    /\ UNCHANGED <<config, visited_urls, pending_urls, crawled_pages, cur, exc, started,
                   closeCalls, fetched, files, report,
                   new_links, hops, calls>>

\* the while condition is false: the loop is left for generate_report
ExitLoop ==
    /\ pc = "loop"
    /\ ~LoopCond
    /\ pc' = "report"
    /\ UNCHANGED <<config, visited_urls, pending_urls, crawled_pages, cur, exc, started,
                   closeCalls, fetched, files, report,
                   new_links, hops, calls>>

\* mutant of SkipItem: the continue statements leave the skipped item at the head
SkipItem_NoPop ==
    /\ pc = "loop"
    /\ LoopCond
    /\ LET url == Head(pending_urls)[1]
           depth == Head(pending_urls)[2]
       IN  AlreadyVisited(url) \/ DepthExceeded(depth)
    /\ UNCHANGED vars

\* an item is popped and skipped by one of the two continue statements
SkipItem ==
    /\ pc = "loop"
    /\ LoopCond
    /\ LET url == Head(pending_urls)[1]
           depth == Head(pending_urls)[2]
       IN  AlreadyVisited(url) \/ DepthExceeded(depth)
    /\ pending_urls' = Tail(pending_urls)
    /\ UNCHANGED <<config, visited_urls, crawled_pages, pc, cur, exc, started, closeCalls,
                   fetched, files, report,
                   new_links, hops, calls>>

\* an item is popped, marked visited and crawler.arun is called for it
BeginFetch ==
    /\ pc = "loop"
    /\ LoopCond
    /\ LET url == Head(pending_urls)[1]
           depth == Head(pending_urls)[2]
       IN  /\ ~AlreadyVisited(url)
           /\ ~DepthExceeded(depth)
           /\ visited_urls' = MarkVisited(visited_urls, url)
           /\ cur' = <<url, depth>>
           /\ fetched' = Append(fetched, <<url, depth>>)
    /\ pending_urls' = Tail(pending_urls)
    /\ pc' = "fetch"
    /\ UNCHANGED <<config, crawled_pages, exc, started, closeCalls, files, report,
                   new_links, hops, calls>>

\* save_page_content: the path of the file written, or None when writing it raised
SavePageContent(url, saved) ==
    IF saved THEN FilePath(get_safe_filename(url)) ELSE NoPath

\* new_links for a result with html, given what each anchor of a page of url appends:
\* extract_links_from_html returns [] when parsing raises
NewLinks(html, parsed, appended) ==
    IF html.markup /\ parsed THEN LinkSet(html.hrefs, appended) ELSE {}

\* the values of new_links over the results with html crawler.arun may return for url;
\* for a result without html new_links is not assigned
NewLinkSets(url) ==
    LET appended == AnchorLinks(Hrefs, url)
    IN  {NewLinks(html, parsed, appended) :
            html \in HtmlChoices \ {NoHtml}, parsed \in BOOLEAN}

\* mutant of MayExtract: links are extracted from the pages at max_depth too
MayExtract_Inclusive(depth) == depth <= max_depth

\* if depth < self.max_depth and result.html: the guard on depth
MayExtract(depth) == depth < max_depth

\* mutant of AppendRecord: only successful fetches are recorded
AppendRecord_SuccessOnly(pages, record) ==
    IF record.success THEN Append(pages, record) ELSE pages

\* self.crawled_pages.append
AppendRecord(pages, record) == Append(pages, record)

\* the pages fetched whose file could not be written
SaveFailures(pages) ==
    Cardinality({i \in 1..Len(pages) : pages[i].success /\ pages[i].filepath = NoPath})

\* whether open() and write() succeed in save_page_content
SaveOutcomes ==
    IF SaveFailures(crawled_pages) < MaxSaveFailures THEN {TRUE, FALSE} ELSE {TRUE}

\* crawler.arun returns a result with success set
FetchSuccess ==
    /\ pc = "fetch"
    /\ \E mdlen \in MarkdownLengths, saved \in SaveOutcomes :
        LET url       == cur[1]
            depth     == cur[2]
            filepath  == SavePageContent(url, saved)
        IN  /\ files' = IF saved THEN files \cup {filepath} ELSE files
            /\ crawled_pages' =
                   AppendRecord(crawled_pages, SuccessRecord(url, depth, filepath, mdlen))
            /\ IF MayExtract(depth)
               THEN \/ /\ NoHtml \in HtmlChoices
                       /\ UNCHANGED <<pending_urls, new_links, hops>>
                    \/ \E links \in NewLinkSets(url) :
                          /\ new_links' = links
                          /\ \E order \in Orderings(links) :
                                pending_urls' = EnqueueLinks(pending_urls, order, depth)
                          /\ hops' = Relax(hops, links, url)
               ELSE UNCHANGED <<pending_urls, new_links, hops>>
    /\ pc' = "loop"
    /\ cur' = NoItem
    /\ UNCHANGED <<config, visited_urls, exc, started, closeCalls, fetched, report, calls>>

\* mutant of FetchFailure: the URL of a failed fetch is appended to pending_urls again
FetchFailure_Requeues ==
    /\ pc = "fetch"
    /\ \E msg \in ErrorMessages :
        crawled_pages' = AppendRecord(crawled_pages, FailureRecord(cur[1], cur[2], msg))
    /\ pending_urls' = Append(pending_urls, cur)
    /\ pc' = "loop"
    /\ cur' = NoItem
    /\ UNCHANGED <<config, visited_urls, exc, started, closeCalls, fetched, files, report,
                   new_links, hops, calls>>

\* crawler.arun returns a result with success unset
FetchFailure ==
    /\ pc = "fetch"
    /\ \E msg \in ErrorMessages :
        crawled_pages' = AppendRecord(crawled_pages, FailureRecord(cur[1], cur[2], msg))
    /\ pc' = "loop"
    /\ cur' = NoItem
    /\ UNCHANGED <<config, visited_urls, pending_urls, exc, started, closeCalls, fetched,
                   files, report,
                   new_links, hops, calls>>

\* mutant of FetchRaises: the exception leaves crawl_directory without the finally block
FetchRaises_NoFinally ==
    /\ pc = "fetch"
    /\ \E e \in Raised : exc' = e
    /\ pc' = "raised"
    /\ cur' = NoItem
    /\ UNCHANGED <<config, visited_urls, pending_urls, crawled_pages, started, closeCalls,
                   fetched, files, report,
                   new_links, hops, calls>>

\* crawler.arun raises, or the task is cancelled while it is awaited
FetchRaises ==
    /\ pc = "fetch"
    /\ \E e \in Raised : exc' = e
    /\ pc' = "close"
    /\ cur' = NoItem
    /\ UNCHANGED <<config, visited_urls, pending_urls, crawled_pages, started, closeCalls,
                   fetched, files, report,
                   new_links, hops, calls>>

\* mutant of GenerateReport: the session is closed first and the report written then
GenerateReport_ClosesFirst ==
    /\ pc = "report"
    /\ closeCalls' = closeCalls + 1
    /\ report' = Append(report, ReportOf(crawled_pages))
    /\ pc' = "done"
    /\ UNCHANGED <<config, visited_urls, pending_urls, crawled_pages, cur, exc, started,
                   fetched, files, new_links, hops, calls>>

\* generate_report writes _CRAWL_REPORT.md
GenerateReport ==
    /\ pc = "report"
    /\ report' = Append(report, ReportOf(crawled_pages))
    /\ pc' = "close"
    /\ UNCHANGED <<config, visited_urls, pending_urls, crawled_pages, cur, exc, started,
                   closeCalls, fetched, files, 
                   new_links, hops, calls>>

\* generate_report cannot open the report file
ReportRaises ==
    /\ pc = "report"
    /\ exc' = "OSError"
    /\ pc' = "close"
    /\ UNCHANGED <<config, visited_urls, pending_urls, crawled_pages, cur, started,
                   closeCalls, fetched, files, report,
                   new_links, hops, calls>>

\* finally: await crawler.close() returns
CloseOk ==
    /\ pc = "close"
    /\ closeCalls' = closeCalls + 1
    /\ pc' = IF exc = None THEN "done" ELSE "raised"
    /\ UNCHANGED <<config, visited_urls, pending_urls, crawled_pages, cur, exc, started,
                   fetched, files, report,
                   new_links, hops, calls>>

\* finally: await crawler.close() raises
CloseRaises ==
    /\ pc = "close"
    /\ closeCalls' = closeCalls + 1
    /\ exc' = "Exception"
    /\ pc' = "raised"
    /\ UNCHANGED <<config, visited_urls, pending_urls, crawled_pages, cur, started,
                   fetched, files, report,
                   new_links, hops, calls>>

Next ==
    \/ StartOk
    \/ StartFails
    \/ ExitLoop
    \/ SkipItem
    \/ BeginFetch
    \/ FetchFailure
    \/ FetchRaises
    \/ FetchSuccess
    \/ GenerateReport
    \/ ReportRaises
    \/ CloseOk
    \/ CloseRaises

Spec == Init /\ [][Next]_vars

\* asyncio.run drives crawl_directory to its end: the coroutine is resumed whenever the
\* call it awaits has returned or raised, and every synchronous step runs on
LiveSpec == Spec /\ WF_vars(Next)

-----------------------------------------------------------------------------
(* normalize_url, called on a crawler that was constructed and has not crawled *)

\* directory_url arguments without a scheme: "h/g/" and "//h/g/"
SchemelessDirUrls == {<<"h", "/", "g", "/">>, <<"/", "/", "h", "/", "g", "/">>}

\* the characters of the short arguments: a letter, and those normalize_url looks for
NormalizeChars == {"a", "/", "#", ":"}

\* the url arguments: every short string, every href, and an absolute URL with fragments
NormalizeInputs ==
    UNION {[1..n -> NormalizeChars] : n \in 0..MaxInputLen}
        \cup Hrefs \cup {URL_G \o <<"/", "a", "#", "f", "#">>}

\* the crawlers normalize_url is called on
NormalizeInit ==
    \E url \in DirUrls \cup SchemelessDirUrls : Constructed(url, 1, 1)

\* self.normalize_url(url) is called on an argument
NormalizeCall ==
    /\ calls = <<>>
    /\ \E url \in NormalizeInputs : calls' = <<<<url, normalize_url(url)>>>>
    /\ UNCHANGED <<config, visited_urls, pending_urls, crawled_pages, pc, cur, exc, started,
                   closeCalls, fetched, files, report, new_links, hops>>

\* self.normalize_url is called on the result of the first call
NormalizeAgain ==
    /\ Len(calls) = 1
    /\ LET url == calls[1][2]
       IN  calls' = Append(calls, <<url, normalize_url(url)>>)
    /\ UNCHANGED <<config, visited_urls, pending_urls, crawled_pages, pc, cur, exc, started,
                   closeCalls, fetched, files, report, new_links, hops>>

NormalizeNext ==
    \/ NormalizeCall
    \/ NormalizeAgain

NormalizeSpec == NormalizeInit /\ [][NormalizeNext]_vars

-----------------------------------------------------------------------------
(* Claims *)

\* the URLs of the records of the crawl log, in order
RecordUrls == [i \in 1..Len(crawled_pages) |-> crawled_pages[i].url]

\* C1. Budget respect: whatever the fetch outcomes, the number of records of the crawl
\* log with success set never exceeds max_pages (max_pages >= 0).
C1_BudgetRespect ==
    max_pages >= 0 => SuccessCount(crawled_pages) <= max_pages

\* C1: the budget is exhausted by successful fetches while items are still pending
C1_Witness ==
    /\ pc = "report"
    /\ max_pages >= 2
    /\ SuccessCount(crawled_pages) = max_pages
    /\ pending_urls # <<>>

C3_NoDuplicateRecords ==
    \A i, j \in 1..Len(crawled_pages) :
        crawled_pages[i].url = crawled_pages[j].url => i = j

\* C3: several pages are recorded, and the links last extracted hold a visited URL
\* fewer hops away than another of them: it was linked again and not appended again
C3_Witness ==
    /\ \E l1 \in new_links \cap visited_urls, l2 \in new_links : hops[l1] < hops[l2]
    /\ Len(crawled_pages) >= 3

\* C4. No item is processed beyond the depth limit: crawler.arun is never called for
\* an item with depth > max_depth and no record has depth > max_depth, also when
\* max_depth is 0 or negative.
C4_DepthLimit ==
    /\ \A i \in 1..Len(fetched) : fetched[i][2] <= max_depth
    /\ \A i \in 1..Len(crawled_pages) : crawled_pages[i].depth <= max_depth

\* C4: with a negative max_depth the directory itself is popped and skipped, and the
\* loop ends without a fetch
C4_Witness ==
    /\ max_depth < 0
    /\ pc = "report"
    /\ pending_urls = <<>>
    /\ fetched = <<>>

\* C5, as claimed: every URL appended to pending_urls or passed to crawler.arun, the
\* directory seeded by crawl_directory included, has the host base_domain and a path
\* that starts with directory_path.
C5_ScopeContainment ==
    /\ \A i \in 1..Len(fetched) : is_in_target_directory(fetched[i][1])
    /\ \A u \in PendingUrls(pending_urls) : is_in_target_directory(u)

\* "http://h/gx/p": a page of the sibling /gx of the directory /g
SiblingUrl == URL_G \o <<"x", "/", "p">>

\* C6, as claimed: for every directory_url the constructor accepts, the path prefix of
\* the scope filter ends with '/', and a URL under the sibling path /gx is not in scope.
C6_PrefixEndsWithSeparator ==
    /\ EndsWith(directory_path, <<"/">>)
    /\ ~is_in_target_directory(SiblingUrl)

\* C7. Report completeness: at the loop head and at report time the crawl log holds
\* exactly one record for each item that passed the visited and depth checks, in
\* processing order (as many records as visited URLs); a skipped item adds none; the
\* report itemizes exactly these records.
C7_ReportCompleteness ==
    /\ pc \in {"loop", "report"} =>
          /\ Len(crawled_pages) = Cardinality(visited_urls)
          /\ RecordUrls = [i \in 1..Len(fetched) |-> fetched[i][1]]
          /\ \A i \in 1..Len(crawled_pages) : crawled_pages[i].depth = fetched[i][2]
    /\ \A k \in 1..Len(report) :
          /\ Len(report[k].lines) = Len(fetched)
          /\ [i \in 1..Len(report[k].lines) |-> report[k].lines[i].url] = RecordUrls

\* C7: at report time the log holds successes and a failure, in the order fetched
C7_Witness ==
    /\ pc = "report"
    /\ Len(crawled_pages) >= 3
    /\ \E i, j \in 1..Len(crawled_pages) :
          crawled_pages[i].success /\ ~crawled_pages[j].success

C9_ScopedRelease ==
    /\ pc \in {"done", "raised"} => closeCalls = (IF started THEN 1 ELSE 0)
    /\ pc \in {"start", "loop", "fetch", "report", "close"} => closeCalls = 0

\* C9: the run was cancelled while crawler.arun was awaited, and the session was closed
C9_Witness ==
    /\ pc = "raised"
    /\ started
    /\ exc = "CancelledError"
    /\ Len(fetched) > Len(crawled_pages)
    /\ closeCalls = 1

ScenarioHrefs ==
    {<<"a">>, <<"/", "g", "/", "b", "#", "f">>, <<"/", "o", "/", "c">>, JAVASCRIPT \o <<"v">>}

\* "http://h/g/a", "http://h/g/b" and "http://h/o/c"
GA == URL_G \o <<"/", "a">>
GB == URL_G \o <<"/", "b">>
OC == HTTP \o <<":", "/", "/", "h", "/", "o", "/", "c">>

\* the URLs crawler.arun was called for
FetchedUrls == {fetched[i][1] : i \in 1..Len(fetched)}

\* C11. With max_depth = 1, a budget of at least the three pages, and a directory page
\* that links to the in-scope a and b#f, to the out-of-scope /o/c and to a javascript:
\* link: the links extracted are a and b (fragment stripped), only these are ever
\* appended, at depth 1, neither /o/c nor the javascript: link is appended or fetched,
\* and when the loop is left with every fetch successful the log holds exactly three
\* records: the directory at depth 0, then a and b at depth 1.
C11_ScenarioThreeRecords ==
    (/\ max_depth = 1
     /\ max_pages >= 3
     /\ is_in_target_directory(GA) /\ is_in_target_directory(GB)
     /\ ~is_in_target_directory(OC)
     /\ new_links # {}
     /\ new_links = extract_links_from_html(ScenarioHrefs, directory_url))
    => /\ new_links = {GA, GB}
       /\ \A i \in 1..Len(pending_urls) :
             pending_urls[i][1] \in {GA, GB} /\ pending_urls[i][2] = 1
       /\ (PendingUrls(pending_urls) \cup FetchedUrls) \cap {OC, JAVASCRIPT \o <<"v">>} = {}
       /\ (/\ pc \in {"report", "close", "done"}
           /\ exc = None
           /\ \A i \in 1..Len(crawled_pages) : crawled_pages[i].success)
          => /\ Len(crawled_pages) = 3
             /\ crawled_pages[1].url = directory_url /\ crawled_pages[1].depth = 0
             /\ {crawled_pages[2].url, crawled_pages[3].url} = {GA, GB}
             /\ crawled_pages[2].depth = 1 /\ crawled_pages[3].depth = 1

\* C11: the scenario has run to completion
C11_Witness ==
    /\ pc = "done"
    /\ max_depth = 1
    /\ new_links = extract_links_from_html(ScenarioHrefs, directory_url)
    /\ RecordUrls = <<directory_url, GB, GA>>
    /\ \A i \in 1..3 : crawled_pages[i].success

\* C12. normalize_url is idempotent on every argument (with or without a fragment,
\* protocol-relative, root-relative, absolute, empty) and for every crawler, with or
\* without a scheme in its directory URL: called on its own result it returns that
\* result, and no result contains '#'.
C12_NormalizeIdempotent ==
    /\ \A i \in 1..Len(calls) : \A k \in 1..Len(calls[i][2]) : calls[i][2][k] # "#"
    /\ Len(calls) = 2 => (calls[2][1] = calls[1][2] /\ calls[2][2] = calls[1][2])

\* C12: a root-relative argument with a fragment was normalized twice on a crawler
\* whose directory URL has a scheme
C12_Witness ==
    /\ Len(calls) = 2
    /\ calls[1][1] = <<"/", "a", "#">>
    /\ calls[1][2] = HTTP \o <<":", "/", "/", "h", "/", "a">>

\* C13. Depth discipline at enqueue time: the directory is appended at depth 0; what a
\* fetch of a page of depth d appends goes to the tail of pending_urls with depth d + 1,
\* and only when d < max_depth; hence, for max_depth >= 0, no pending item is deeper
\* than max_depth and the depth guard at the head of the loop never skips an item.
C13_EnqueueDepthDiscipline ==
    /\ [](max_depth >= 0 =>
             /\ \A i \in 1..Len(pending_urls) : pending_urls[i][2] <= max_depth
             /\ (pc = "loop" /\ LoopCond) => ~DepthExceeded(Head(pending_urls)[2]))
    /\ [][/\ pc = "start" /\ pc' = "loop" => pending_urls' = <<<<directory_url, 0>>>>
          /\ pc = "fetch" =>
                /\ Len(pending_urls') >= Len(pending_urls)
                /\ SubSeq(pending_urls', 1, Len(pending_urls)) = pending_urls
                /\ \A i \in (Len(pending_urls) + 1)..Len(pending_urls') :
                      pending_urls'[i][2] = cur[2] + 1 /\ cur[2] < max_depth]_vars

\* C13: a page of depth 1 was fetched and an item it appended is pending at the depth
\* limit 2
C13_Witness ==
    /\ max_depth = 2
    /\ pc = "loop"
    /\ Len(crawled_pages) >= 2
    /\ \E i \in 1..Len(pending_urls) : pending_urls[i][2] = 2

\* C14. A URL is never appended again once visited or while pending: pending_urls
\* holds no visited URL and no URL twice, crawler.arun is called at most once per URL,
\* and a URL whose fetch failed is never pending again, whichever pages link to it.
C14_NeverRequeued ==
    /\ PendingUrls(pending_urls) \cap visited_urls = {}
    /\ \A i, j \in 1..Len(pending_urls) : pending_urls[i][1] = pending_urls[j][1] => i = j
    /\ \A i, j \in 1..Len(fetched) : fetched[i][1] = fetched[j][1] => i = j
    /\ PendingUrls(pending_urls) \cap FailedUrls(crawled_pages) = {}

\* C14: the fetch of a failed; b, fetched next, linked to a and to a new page: only the
\* new page is pending
C14_Witness ==
    /\ pc = "loop"
    /\ RecordUrls = <<directory_url, GA, GB>>
    /\ ~crawled_pages[2].success
    /\ crawled_pages[3].success
    /\ new_links = {GA, SiblingUrl}
    /\ pending_urls = <<<<SiblingUrl, 2>>>>

\* C15. Frame of a failed fetch: the iteration pops the item and adds its URL to
\* visited_urls before the fetch; when crawler.arun reports failure it appends exactly
\* one record, with success False, filepath None and the error message, and changes
\* nothing else: pending_urls, visited_urls, the page files and new_links stay as they
\* were (no link is extracted or appended, no file is written).
C15_FailedFetchFrame ==
    [][/\ (pc = "loop" /\ pc' = "fetch") =>
             /\ cur' = Head(pending_urls)
             /\ pending_urls' = Tail(pending_urls)
             /\ visited_urls' = visited_urls \cup {cur'[1]}
             /\ crawled_pages' = crawled_pages /\ files' = files
       /\ (/\ pc = "fetch" /\ pc' = "loop"
           /\ crawled_pages' # <<>>
           /\ ~crawled_pages'[Len(crawled_pages')].success) =>
             /\ \E msg \in ErrorMessages :
                   crawled_pages' =
                       Append(crawled_pages,
                              [url |-> cur[1], depth |-> cur[2], filepath |-> NoPath,
                               success |-> FALSE, error |-> msg])
             /\ cur[1] \in visited_urls
             /\ UNCHANGED <<pending_urls, visited_urls, files, new_links>>]_vars

\* C15: the fetch of the second page failed while items are pending and a page file
\* exists
C15_Witness ==
    /\ pc = "loop"
    /\ Len(crawled_pages) = 2
    /\ ~crawled_pages[2].success
    /\ pending_urls # <<>>
    /\ files # {}

\* the record appended last
LastRecord(pages) == pages[Len(pages)]

\* the items at the tail of the list after that are not in the list before
Appended(before, after) == {after[i] : i \in (Len(before) + 1)..Len(after)}

\* C16. A failure of save_page_content does not change the outcome of the page: when
\* crawler.arun reports success and no file is written, exactly one record is appended,
\* with success True and filepath None; every record counts toward max_pages; and for a
\* page of depth < max_depth that has html the links are extracted and appended as for
\* a page whose file was written.
C16_PersistFailureKeepsOutcome ==
    /\ [][(/\ pc = "fetch" /\ pc' = "loop"
           /\ crawled_pages' # crawled_pages
           /\ "markdown_length" \in DOMAIN LastRecord(crawled_pages')
           /\ files' = files) =>
             /\ crawled_pages' = Append(crawled_pages, LastRecord(crawled_pages'))
             /\ LastRecord(crawled_pages').url = cur[1]
             /\ LastRecord(crawled_pages').success
             /\ LastRecord(crawled_pages').filepath = NoPath
             /\ IF MayExtract(cur[2])
                THEN \/ UNCHANGED <<pending_urls, new_links>>
                     \/ /\ SubSeq(pending_urls', 1, Len(pending_urls)) = pending_urls
                        /\ Appended(pending_urls, pending_urls') =
                               {<<link, cur[2] + 1>> :
                                   link \in new_links' \
                                       (visited_urls \cup PendingUrls(pending_urls))}
                        /\ Len(pending_urls') - Len(pending_urls) =
                               Cardinality(Appended(pending_urls, pending_urls'))
                ELSE UNCHANGED <<pending_urls, new_links>>]_vars
    /\ [](max_pages >= 0 => Len(crawled_pages) <= max_pages)

\* C16: the file of the directory page could not be written; the page is recorded as
\* successful, exhausts the budget of one page, and its links are pending
C16_Witness ==
    /\ pc = "report"
    /\ max_pages = 1
    /\ Len(crawled_pages) = 1
    /\ crawled_pages[1].success /\ crawled_pages[1].filepath = NoPath
    /\ files = {}
    /\ PendingUrls(pending_urls) = {GA, GB}

\* C17, as claimed: on normal completion crawler.close() is called before the report is
\* produced: whenever a report exists, the session has been closed.
C17_CloseBeforeReport ==
    Len(report) > 0 => closeCalls >= 1

\* C17, amended: on normal completion the report is produced first and the session is
\* closed afterwards: the report is written while close() has not been called, close()
\* is called on a run without exception only when the report exists, and a completed
\* run has both.
C17_ReportBeforeClose ==
    /\ [][/\ report' # report => (closeCalls = 0 /\ closeCalls' = 0 /\ pc' = "close")
          /\ (closeCalls' # closeCalls /\ exc = None) => Len(report) = 1]_vars
    /\ [](pc = "done" => (Len(report) = 1 /\ closeCalls = 1))

\* C17: the report is written and crawler.close() has not been called yet
C17_Witness ==
    /\ pc = "close"
    /\ exc = None
    /\ Len(report) = 1
    /\ crawled_pages # <<>>
    /\ closeCalls = 0

\* C18. Breadth-first order: pending_urls is consumed from its head and extended at its
\* tail only; in every state the depths of the pending items are non-decreasing from
\* head to tail, the depths of the records are non-decreasing in the order of the log,
\* and no pending item is shallower than the page being fetched or than a page fetched
\* before.
C18_BreadthFirst ==
    /\ [](/\ \A i, j \in 1..Len(pending_urls) :
                i <= j => pending_urls[i][2] <= pending_urls[j][2]
          /\ \A i, j \in 1..Len(crawled_pages) :
                i <= j => crawled_pages[i].depth <= crawled_pages[j].depth
          /\ \A i \in 1..Len(fetched), j \in 1..Len(pending_urls) :
                fetched[i][2] <= pending_urls[j][2])
    /\ [][/\ (pc = "loop" /\ pending_urls' # pending_urls) =>
                /\ pending_urls' = Tail(pending_urls)
                /\ pc' = "fetch" => cur' = Head(pending_urls)
          /\ pc = "fetch" =>
                SubSeq(pending_urls', 1, Len(pending_urls)) = pending_urls]_vars

\* C18: a page of depth 1 has appended an item of depth 2 behind a pending item of
\* depth 1
C18_Witness ==
    /\ pc = "loop"
    /\ Len(pending_urls) = 2
    /\ pending_urls[1][2] = 1 /\ pending_urls[2][2] = 2
    /\ LastRecord(crawled_pages).depth = 1

\* crawler.arun raised, or was cancelled, instead of returning a result
FetchRaised == pc # "fetch" /\ Len(fetched) > Len(crawled_pages)

C20_DepthIsShortestHopCount ==
    /\ [](\A i \in 1..Len(crawled_pages) :
             /\ crawled_pages[i].url \in DOMAIN hops
             /\ crawled_pages[i].depth = hops[crawled_pages[i].url])
    /\ [](\A i \in 1..Len(pending_urls) :
             /\ pending_urls[i][1] \in DOMAIN hops
             /\ pending_urls[i][2] = hops[pending_urls[i][1]])
    /\ [](started => hops[directory_url] = 0)
    /\ [][\A u \in DOMAIN hops : u \in DOMAIN hops' /\ hops'[u] = hops[u]]_vars

\* C20: b, linked from the directory page, was recorded at depth 1 when its fetch failed;
\* then a, fetched at depth 1, linked to b: b is two hops away through a, and its record
\* stays at depth 1
C20_Witness ==
    /\ Len(crawled_pages) = 3
    /\ crawled_pages[2].url = GB
    /\ crawled_pages[2].depth = 1
    /\ ~crawled_pages[2].success
    /\ crawled_pages[3].url = GA
    /\ crawled_pages[3].depth = 1
    /\ crawled_pages[3].success
    /\ new_links = {GB}
    /\ hops[GB] = 1

====
